---- MODULE Spec2Model ----
(***************************************************************************)
(* Model of jon-mqn/lamp-client: the Console lamp (lamp.py), the colour    *)
(* codec and palette (lamp.py), the CherrySwitch (switch.py) and the       *)
(* reconciliation loop (client.py).                                        *)
(*                                                                         *)
(* Four specifications share the module:                                   *)
(*   SpecLamp    a Console object under arbitrary public calls             *)
(*   SpecCodec   the pure functions rgb_encode / rgb_decode / suggest_rgb  *)
(*   SpecSwitch  a CherrySwitch object under arbitrary public calls        *)
(*   SpecClient  client.main(): initial check, then the while-True loop    *)
(***************************************************************************)
EXTENDS Integers, Sequences, FiniteSets, TLC

VARIABLES
    \* ---- Console (lamp.py) ----
    rgb,            \* self.rgb
    brightness,     \* self.brightness
    state,          \* self.state
    call,           \* the last public call on the lamp and its outcome
    \* ---- pure functions (lamp.py) ----
    fn,             \* the last pure-function application and its result
    \* ---- CherrySwitch (switch.py) ----
    pin,            \* self.pin
    sw_state,       \* self._state
    sw_previous_state, \* self._previous_state
    sw_can_change,  \* self._can_change
    sw_button,      \* self._button
    sw_log,         \* the calls made on the switch so far, with their results
    \* ---- client.py ----
    pc,             \* position of main()
    remote,         \* the record the remote feed currently holds
    prevEvent,      \* the loop event before the last one
    lastEvent,      \* the last loop event (pull / push / sleep)
    step,           \* outcome of the last check_color / trigger_color_change
    thread          \* the Thread object built at client.py:58

lampVars   == <<rgb, brightness, state, call>>
codecVars  == <<fn>>
switchVars == <<pin, sw_state, sw_previous_state, sw_can_change, sw_button, sw_log>>
clientVars == <<pc, remote, prevEvent, lastEvent, step, thread>>
vars       == <<lampVars, codecVars, switchVars, clientVars>>

(***************************************************************************)
(* Bounds of the model                                                     *)
(***************************************************************************)
MaxFlashes    == 2      \* flash(n) is called with n in 0..MaxFlashes
MaxPulsations == 2      \* pulsate(n, s) is called with n in 0..MaxPulsations
MaxCalls      == 4      \* length of the recorded switch call history

(***************************************************************************)
(* Floats.  A brightness is a Python float: either a number, kept here in  *)
(* units of 1/10000, or NaN.  Every ordered comparison with NaN is false.  *)
(***************************************************************************)
\* 1.0, the upper limit of lamp.py:87, in units of 1/10000
FloatUnit == 10000
Float(v)  == [nan |-> FALSE, v |-> v]
NaN       == [nan |-> TRUE, v |-> 0]
FloatLT(a, b) == ~a.nan /\ ~b.nan /\ a.v < b.v
FloatGT(a, b) == ~a.nan /\ ~b.nan /\ a.v > b.v
FloatLE(a, b) == ~a.nan /\ ~b.nan /\ a.v <= b.v

\* the values the calls are tried with
ChannelInputs    == {-1, 0, 128, 255, 256}
ColorInputs      == {<<r, g, b>> : r \in ChannelInputs, g \in ChannelInputs, b \in ChannelInputs}
BrightnessInputs == {Float(-1), Float(0), Float(5000), Float(FloatUnit), Float(FloatUnit + 1), NaN}
SecondsInputs    == {-1, 0, 5}

(***************************************************************************)
(* lamp.py: validation                                                     *)
(***************************************************************************)
ChannelMin == 0
ChannelMax == 255

\* mutant: the upper bound is not checked
validate_color_noupper(c) ==
    \A i \in 1..Len(c) : ~(c[i] < ChannelMin)

\* lamp.py:76-82: False at the first channel below 0 or above 255, else True
validate_color(c) ==
    \A i \in 1..Len(c) : ~(c[i] < ChannelMin \/ c[i] > ChannelMax)

\* lamp.py:85-89
validate_brightness(b) ==
    IF FloatLT(b, Float(0)) \/ FloatGT(b, Float(FloatUnit)) THEN FALSE ELSE TRUE

(***************************************************************************)
(* lamp.py: Console                                                        *)
(***************************************************************************)
Snapshot == [rgb |-> rgb, brightness |-> brightness, state |-> state]

NoColor == <<0, 0, 0>>

\* the record of one public call: its name, its arguments, whether it
\* raised, the lamp before it, the set_state writes it made and the
\* pulsation events it emitted
Call(op, c, b, s, n, secs, raised, ret, writes, events, waited) ==
    [op |-> op, rgb |-> c, brightness |-> b, state |-> s, n |-> n,
     seconds |-> secs, raised |-> raised, ret |-> ret, pre |-> Snapshot,
     writes |-> writes, events |-> events, waited |-> waited]

\* lamp.py:145-158: the constructor raises on an invalid colour or brightness,
\* so a Console object exists only for arguments that pass both checks
ConsoleInit(c, b, s) ==
    /\ validate_color(c)
    /\ validate_brightness(b)
    /\ rgb = c
    /\ brightness = b
    /\ state = s
    /\ call = [op |-> "__init__", rgb |-> c, brightness |-> b, state |-> s, n |-> 0,
               seconds |-> 0, raised |-> FALSE, ret |-> "None",
               pre |-> [rgb |-> c, brightness |-> b, state |-> s],
               writes |-> <<>>, events |-> <<>>, waited |-> 0]

\* lamp.py:160-165
set_color(c) ==
    IF ~validate_color(c)
    THEN /\ call' = Call("set_color", c, brightness, state, 0, 0, TRUE, "None", <<>>, <<>>, 0)
         /\ UNCHANGED <<rgb, brightness, state>>
    ELSE /\ rgb' = c
         /\ call' = Call("set_color", c, brightness, state, 0, 0, FALSE, "None", <<>>, <<>>, 0)
         /\ UNCHANGED <<brightness, state>>

\* lamp.py:167-169
get_color ==
    /\ call' = Call("get_color", NoColor, brightness, state, 0, 0, FALSE, rgb, <<>>, <<>>, 0)
    /\ UNCHANGED <<rgb, brightness, state>>

\* lamp.py:171-176
set_brightness(b) ==
    IF ~validate_brightness(b)
    THEN /\ call' = Call("set_brightness", NoColor, b, state, 0, 0, TRUE, "None", <<>>, <<>>, 0)
         /\ UNCHANGED <<rgb, brightness, state>>
    ELSE /\ brightness' = b
         /\ call' = Call("set_brightness", NoColor, b, state, 0, 0, FALSE, "None", <<>>, <<>>, 0)
         /\ UNCHANGED <<rgb, state>>

\* lamp.py:178-180
get_brightness ==
    /\ call' = Call("get_brightness", NoColor, brightness, state, 0, 0, FALSE, brightness, <<>>, <<>>, 0)
    /\ UNCHANGED <<rgb, brightness, state>>

\* lamp.py:182-188
set_state(s) ==
    /\ state' = s
    /\ call' = Call("set_state", NoColor, brightness, s, 0, 0, FALSE, "None", <<>>, <<>>, 0)
    /\ UNCHANGED <<rgb, brightness>>

\* lamp.py:190-195
get_state ==
    /\ call' = Call("get_state", NoColor, brightness, state, 0, 0, FALSE, state, <<>>, <<>>, 0)
    /\ UNCHANGED <<rgb, brightness, state>>

\* lamp.py:199: `self.get_state` is the bound method object, not a call of it;
\* a method object is always truthy
get_state_method_truth == TRUE

\* mutant: each iteration switches on, then off
RECURSIVE FlashLoop_onoff(_, _, _)
FlashLoop_onoff(i, n, w) ==
    IF i >= n THEN w
    ELSE FlashLoop_onoff(i + 1, n, w \o <<TRUE, FALSE>>)

\* lamp.py:201-204: the writes of iterations i..n-1 of the loop, appended to w
RECURSIVE FlashLoop(_, _, _)
FlashLoop(i, n, w) ==
    IF i >= n THEN w
    ELSE FlashLoop(i + 1, n, w \o <<FALSE, TRUE>>)

\* lamp.py:197-206: the set_state writes flash(n) makes, in order
FlashWrites(n) ==
    LET first == IF ~get_state_method_truth THEN <<TRUE>> ELSE <<>>
    IN  FlashLoop(0, n, first)

flash(n) ==
    LET w == FlashWrites(n)
    IN  /\ state' = IF w = <<>> THEN state ELSE w[Len(w)]
        /\ call' = Call("flash", NoColor, brightness, state, n, 0, FALSE, "None", w, <<>>, 0)
        /\ UNCHANGED <<rgb, brightness>>

\* lamp.py:213: time.sleep raises ValueError for a negative length
sleep_raises(secs) == secs < 0

PulsationStart(i)  == [what |-> "start", i |-> i]
PulsationFinish(i) == [what |-> "finish", i |-> i]

\* mutant: the finish of a pulsation is not emitted
PulsationEvents_nofinish(i) ==
    <<PulsationStart(i)>>

\* lamp.py:212-214: the two prints of pulsation i, around its sleep
PulsationEvents(i) ==
    <<PulsationStart(i), PulsationFinish(i)>>

\* lamp.py:211-214: pulsations i..n-1 carried on from r, the events emitted
\* and the time waited so far; the loop ends where time.sleep raises
RECURSIVE PulsateLoop(_, _, _, _)
PulsateLoop(i, n, secs, r) ==
    IF i >= n THEN r
    ELSE IF sleep_raises(secs)
         THEN [events |-> Append(r.events, PulsationStart(i)), waited |-> r.waited,
               raised |-> TRUE]
         ELSE PulsateLoop(i + 1, n, secs,
                          [events |-> r.events \o PulsationEvents(i),
                           waited |-> r.waited + secs, raised |-> FALSE])

\* lamp.py:208-216
pulsate(n, secs) ==
    LET r == PulsateLoop(0, n, secs, [events |-> <<>>, waited |-> 0, raised |-> FALSE])
    IN  /\ call' = Call("pulsate", NoColor, brightness, state, n, secs, r.raised, "None", <<>>,
                        r.events, r.waited)
        /\ UNCHANGED <<rgb, brightness, state>>

(***************************************************************************)
(* lamp.py: colour codec.  On Python ints  x << 8  is x * 256,  x >> k  is *)
(* the floor of x / 2^k, and  x & 0xff  is x modulo 256.                   *)
(***************************************************************************)
Shift8  == 256
Shift16 == 65536
Mask8   == 256

\* mutant: green is shifted by 7 bits instead of 8 on the way in
rgb_encode_shift7(c) ==
    LET e1 == c[1]
        e2 == (e1 * 128) + c[2]
        e3 == (e2 * Shift8) + c[3]
    IN  e3

\* lamp.py:115-120
rgb_encode(c) ==
    LET e1 == c[1]
        e2 == (e1 * Shift8) + c[2]
        e3 == (e2 * Shift8) + c[3]
    IN  e3

\* mutant: no decoding, the result is always black
rgb_decode_black(v) ==
    <<0, 0, 0>>

\* mutant: the red channel is shifted down but not masked
rgb_decode_nomask(v) ==
    <<v \div Shift16, (v \div Shift8) % Mask8, v % Mask8>>

\* lamp.py:123-127
rgb_decode(v) ==
    <<(v \div Shift16) % Mask8, (v \div Shift8) % Mask8, v % Mask8>>

(***************************************************************************)
(* lamp.py: palette and suggestion                                         *)
(***************************************************************************)
\* lamp.py:97-111
colors ==
    << <<255, 100, 0>>,     \* Amber
       <<50, 255, 255>>,    \* Aqua
       <<255, 255, 255>>,   \* White
       <<0, 0, 255>>,       \* Blue
       <<0, 255, 255>>,     \* Cyan
       <<255, 222, 30>>,    \* Gold
       <<0, 255, 0>>,       \* Green
       <<0, 255, 40>>,      \* Jade
       <<255, 0, 20>>,      \* Magenta
       <<253, 245, 230>>,   \* Old Lace
       <<255, 40, 0>>,      \* Orange
       <<242, 90, 255>>,    \* Pink
       <<180, 0, 255>> >>   \* Purple

Palette == {colors[i] : i \in 1..Len(colors)}

\* mutant: the current colour is not filtered out
suggest_choices_nofilter(current) ==
    colors

\* lamp.py:112: the list handed to random.choice
suggest_choices(current) ==
    SelectSeq(colors, LAMBDA color : color # current)

\* lamp.py:92-112: the values suggest_rgb(current) can return
suggest_rgb(current) ==
    LET choices == suggest_choices(current)
    IN  {choices[i] : i \in 1..Len(choices)}

(***************************************************************************)
(* SpecCodec: the pure functions applied to bounded inputs.  fn holds the  *)
(* input, the current colour and integer, and the functions applied so far *)
(***************************************************************************)
CodecChannels == {0, 1, 128, 254, 255}
CodecColors   == {<<r, g, b>> : r \in CodecChannels, g \in CodecChannels, b \in CodecChannels}
                 \cup Palette \cup {<<1, 2, 3>>}
HighBits      == Shift16 * Shift8
CodecValues   == {0, 255, 256, 65535, 65536, HighBits - 1, HighBits, HighBits + 255,
                  (3 * HighBits) + 66051}

CodecInputs ==
    {[kind |-> "color", inColor |-> c, inValue |-> 0, color |-> c, value |-> 0,
      choices |-> <<>>, trail |-> <<>>] : c \in CodecColors}
    \cup
    {[kind |-> "value", inColor |-> NoColor, inValue |-> v, color |-> NoColor, value |-> v,
      choices |-> <<>>, trail |-> <<>>] : v \in CodecValues}

\* fn currently holds a colour / an integer to apply a function to
HasColor == (fn.trail = <<>> /\ fn.kind = "color") \/ (fn.trail # <<>> /\ fn.trail[Len(fn.trail)] = "rgb_decode")
HasValue == (fn.trail = <<>> /\ fn.kind = "value") \/ (fn.trail # <<>> /\ fn.trail[Len(fn.trail)] = "rgb_encode")

CodecInput ==
    /\ fn.trail # <<>>
    /\ fn' \in CodecInputs
    /\ UNCHANGED <<lampVars, switchVars, clientVars>>

CodecEncode ==
    /\ HasColor
    /\ Len(fn.trail) < 2
    /\ fn' = [fn EXCEPT !.value = rgb_encode(fn.color), !.trail = Append(@, "rgb_encode")]
    /\ UNCHANGED <<lampVars, switchVars, clientVars>>

CodecDecode ==
    /\ HasValue
    /\ Len(fn.trail) < 2
    /\ fn' = [fn EXCEPT !.color = rgb_decode(fn.value), !.trail = Append(@, "rgb_decode")]
    /\ UNCHANGED <<lampVars, switchVars, clientVars>>

CodecSuggest ==
    /\ fn.trail = <<>>
    /\ fn.kind = "color"
    /\ \E new \in suggest_rgb(fn.color) :
          fn' = [fn EXCEPT !.color = new, !.choices = suggest_choices(fn.color),
                           !.trail = <<"suggest_rgb">>]
    /\ UNCHANGED <<lampVars, switchVars, clientVars>>

(***************************************************************************)
(* switch.py: CherrySwitch                                                 *)
(***************************************************************************)
Pins == {17, 27}

\* mutant: the previous state is seeded equal to the current one
CherrySwitchInit_equal(p) ==
    /\ pin = p
    /\ sw_state = FALSE
    /\ sw_previous_state = FALSE
    /\ sw_can_change = TRUE
    /\ sw_button = [pin |-> p]
    /\ sw_log = <<>>

\* switch.py:37-43
CherrySwitchInit(p) ==
    /\ pin = p
    /\ sw_state = FALSE
    /\ sw_previous_state = TRUE
    /\ sw_can_change = TRUE
    /\ sw_button = [pin |-> p]
    /\ sw_log = <<>>

\* switch.py:53-55
change_permitted_result == TRUE

\* mutant: the comparison is != instead of ==
state_changed_result_differs == (sw_state # sw_previous_state)

\* switch.py:50-51
state_changed_result == (sw_state = sw_previous_state)

\* mutant: the current state is flipped but not remembered as the previous one
change_state_forgets ==
    /\ Len(sw_log) < MaxCalls
    /\ IF change_permitted_result
       THEN /\ sw_state' = ~sw_state
            /\ UNCHANGED sw_previous_state
       ELSE UNCHANGED <<sw_state, sw_previous_state>>
    /\ sw_log' = Append(sw_log, [op |-> "change_state", ret |-> "None"])
    /\ UNCHANGED <<pin, sw_can_change, sw_button>>
    /\ UNCHANGED <<lampVars, codecVars, clientVars>>

\* switch.py:45-48
change_state ==
    /\ Len(sw_log) < MaxCalls
    /\ IF change_permitted_result
       THEN /\ sw_previous_state' = sw_state
            /\ sw_state' = ~sw_state
       ELSE UNCHANGED <<sw_state, sw_previous_state>>
    /\ sw_log' = Append(sw_log, [op |-> "change_state", ret |-> "None"])
    /\ UNCHANGED <<pin, sw_can_change, sw_button>>
    /\ UNCHANGED <<lampVars, codecVars, clientVars>>

state_changed ==
    /\ Len(sw_log) < MaxCalls
    /\ sw_log' = Append(sw_log, [op |-> "state_changed", ret |-> state_changed_result])
    /\ UNCHANGED <<pin, sw_state, sw_previous_state, sw_can_change, sw_button>>
    /\ UNCHANGED <<lampVars, codecVars, clientVars>>

change_permitted ==
    /\ Len(sw_log) < MaxCalls
    /\ sw_log' = Append(sw_log, [op |-> "change_permitted", ret |-> change_permitted_result])
    /\ UNCHANGED <<pin, sw_state, sw_previous_state, sw_can_change, sw_button>>
    /\ UNCHANGED <<lampVars, codecVars, clientVars>>

(***************************************************************************)
(* client.py: the remote feed.  GET returns a list of records and the      *)
(* client reads records[0]['value'], an integer written as a string.  The  *)
(* feed is shared: another party may overwrite it at any time.             *)
(*   kind "int"        records[0]['value'] is the decimal text of value    *)
(*   kind "malformed"  records[0]['value'] is not the text of an integer   *)
(*   kind "empty"      the list of records is empty                        *)
(***************************************************************************)
RemoteInt(v) == [kind |-> "int", value |-> v]

RemoteInts ==
    {rgb_encode(colors[i]) : i \in 1..Len(colors)} \cup {0, 66051, HighBits + 255}

RemotePayloads ==
    {RemoteInt(v) : v \in RemoteInts}
    \cup {[kind |-> "malformed", value |-> 0], [kind |-> "empty", value |-> 0]}

\* what the feed holds at start and what the other party writes
OtherPayloads ==
    {RemoteInt(rgb_encode(<<0, 0, 255>>)), RemoteInt(rgb_encode(<<255, 255, 255>>)),
     RemoteInt(66051), RemoteInt(HighBits + 255),
     [kind |-> "malformed", value |-> 0], [kind |-> "empty", value |-> 0]}

\* the outcome of one HTTP call: "ok", or "error" when requests raises or the
\* body is not JSON; a POST may also be "rejected" (an HTTP error status with
\* a JSON body: nothing is written and nothing is raised)
GetOutcomes  == {"ok", "error"}
PostOutcomes == {"ok", "rejected", "error"}

Step(op, raised, outcome, read, new_color) ==
    [op |-> op, raised |-> raised, outcome |-> outcome, read |-> read,
     new_color |-> new_color, pre |-> Snapshot, preRemote |-> remote]

SleepSeconds == 5

\* mutant: the comparison is inverted
color_differs_inverted(current_color) ==
    current_color = rgb

\* client.py:36
color_differs(current_color) ==
    current_color # rgb

\* client.py:32-38; raises when the GET fails, when there is no record and
\* when the value is not an integer
check_color(next, outcome) ==
    IF outcome = "error" \/ remote.kind # "int"
    THEN /\ step' = Step("check_color", TRUE, outcome, 0, NoColor)
         /\ pc' = "crashed"
         /\ UNCHANGED <<lampVars, remote>>
    ELSE LET current_color == rgb_decode(remote.value)
         IN  /\ IF color_differs(current_color)
                THEN set_color(current_color)
                ELSE get_color
             /\ step' = Step("check_color", ~validate_color(current_color), outcome,
                             remote.value, current_color)
             /\ pc' = IF ~validate_color(current_color) THEN "crashed" ELSE next
             /\ UNCHANGED remote

\* client.py:41-47; the lamp is set before the POST is made
trigger_color_change(next, outcome) ==
    \E new_color \in suggest_rgb(rgb) :
        /\ set_color(new_color)
        /\ IF ~validate_color(new_color)
           THEN /\ step' = Step("trigger_color_change", TRUE, "none", 0, new_color)
                /\ pc' = "crashed"
                /\ UNCHANGED remote
           ELSE /\ step' = Step("trigger_color_change", outcome = "error", outcome, 0, new_color)
                /\ pc' = IF outcome = "error" THEN "crashed" ELSE next
                /\ \/ /\ outcome = "ok"
                      /\ remote' = RemoteInt(rgb_encode(new_color))
                   \/ /\ outcome = "rejected"
                      /\ UNCHANGED remote
                   \/ /\ outcome = "error"
                      /\ remote' \in {remote, RemoteInt(rgb_encode(new_color))}

\* a loop event and the line of client.py that makes it
Ev(what, line) == [what |-> what, line |-> line]
NoEvent == Ev("none", 0)

Event(e) ==
    /\ prevEvent' = lastEvent
    /\ lastEvent' = e

(***************************************************************************)
(* client.py:50-61: main()                                                 *)
(***************************************************************************)
\* client.py:51-52: Console() and the check before the loop
MainInitialCheck ==
    /\ pc = "start"
    /\ \E outcome \in GetOutcomes : check_color("loop", outcome)
    /\ Event(Ev("pull", 52))
    /\ UNCHANGED <<thread, codecVars, switchVars>>

\* client.py:55-57: random.random() >= .5
MainPush ==
    /\ pc = "loop"
    /\ \E outcome \in PostOutcomes : trigger_color_change("check", outcome)
    /\ Event(Ev("push", 57))
    /\ UNCHANGED <<thread, codecVars, switchVars>>

\* mutant: without a push the iteration makes no check
MainNoPush_nocheck ==
    /\ pc = "loop"
    /\ pc' = "thread"
    /\ UNCHANGED <<lampVars, remote, prevEvent, lastEvent, step, thread, codecVars, switchVars>>

\* client.py:55: random.random() < .5
MainNoPush ==
    /\ pc = "loop"
    /\ pc' = "check"
    /\ UNCHANGED <<lampVars, remote, prevEvent, lastEvent, step, thread, codecVars, switchVars>>

\* client.py:58: the argument  check_color(magic_lamp)  is evaluated, in the
\* main thread, before Thread() is called
MainCheck ==
    /\ pc = "check"
    /\ \E outcome \in GetOutcomes : check_color("thread", outcome)
    /\ Event(Ev("pull", 58))
    /\ UNCHANGED <<thread, codecVars, switchVars>>

\* client.py:58-59: Thread(target = None) is built and started; check_color
\* returned None, so the thread's run() has nothing to call
MainThreadStart ==
    /\ pc = "thread"
    /\ thread' = [target |-> "None", started |-> TRUE]
    /\ pc' = "sleep"
    /\ UNCHANGED <<lampVars, remote, prevEvent, lastEvent, step, codecVars, switchVars>>

\* client.py:61
MainSleep ==
    /\ pc = "sleep"
    /\ Event(Ev("sleep", 61))
    /\ step' = Step("sleep", FALSE, "none", 0, NoColor)
    /\ pc' = "loop"
    /\ UNCHANGED <<lampVars, remote, thread, codecVars, switchVars>>

\* another user of the feed writes it
OtherPartyWrite ==
    /\ pc # "crashed"
    /\ \E p \in OtherPayloads :
          /\ p # remote
          /\ remote' = p
    /\ step' = Step("other_party_write", FALSE, "none", 0, NoColor)
    /\ UNCHANGED <<lampVars, pc, prevEvent, lastEvent, thread, codecVars, switchVars>>

(***************************************************************************)
(* Public calls on a Console object                                        *)
(***************************************************************************)
LampSetColor      == (\E c \in ColorInputs : set_color(c)) /\ UNCHANGED <<codecVars, switchVars, clientVars>>
LampGetColor      == get_color /\ UNCHANGED <<codecVars, switchVars, clientVars>>
LampSetBrightness == (\E b \in BrightnessInputs : set_brightness(b)) /\ UNCHANGED <<codecVars, switchVars, clientVars>>
LampGetBrightness == get_brightness /\ UNCHANGED <<codecVars, switchVars, clientVars>>
LampSetState      == (\E s \in BOOLEAN : set_state(s)) /\ UNCHANGED <<codecVars, switchVars, clientVars>>
LampGetState      == get_state /\ UNCHANGED <<codecVars, switchVars, clientVars>>
LampFlash         == (\E n \in 0..MaxFlashes : flash(n)) /\ UNCHANGED <<codecVars, switchVars, clientVars>>
LampPulsate       == (\E n \in 0..MaxPulsations, s \in SecondsInputs : pulsate(n, s)) /\ UNCHANGED <<codecVars, switchVars, clientVars>>

(***************************************************************************)
(* Initial states and specifications                                       *)
(***************************************************************************)
DefaultBrightness == Float(FloatUnit)

\* client.py:51: Console() with the defaults of lamp.py:145-146
ClientInit ==
    /\ pc = "start"
    /\ remote \in OtherPayloads
    /\ prevEvent = NoEvent
    /\ lastEvent = NoEvent
    /\ step = [op |-> "none", raised |-> FALSE, outcome |-> "none", read |-> 0,
               new_color |-> NoColor,
               pre |-> [rgb |-> NoColor, brightness |-> DefaultBrightness, state |-> TRUE],
               preRemote |-> remote]
    /\ thread = [target |-> "unset", started |-> FALSE]

\* the parts a specification does not exercise stay at one fixed value
LampIdle   == ConsoleInit(NoColor, DefaultBrightness, TRUE)
CodecIdle  == fn = [kind |-> "color", inColor |-> NoColor, inValue |-> 0, color |-> NoColor,
                    value |-> 0, choices |-> <<>>, trail |-> <<>>]
SwitchIdle == CherrySwitchInit(17)
ClientIdle == ClientInit /\ remote = RemoteInt(255)

InitLamp ==
    /\ \E c \in ColorInputs, b \in BrightnessInputs, s \in BOOLEAN : ConsoleInit(c, b, s)
    /\ CodecIdle /\ SwitchIdle /\ ClientIdle

NextLamp ==
    \/ LampSetColor
    \/ LampGetColor
    \/ LampSetBrightness
    \/ LampGetBrightness
    \/ LampSetState
    \/ LampGetState
    \/ LampFlash
    \/ LampPulsate

SpecLamp == InitLamp /\ [][NextLamp]_vars

InitCodec ==
    /\ fn \in CodecInputs
    /\ LampIdle /\ SwitchIdle /\ ClientIdle

NextCodec ==
    \/ CodecInput
    \/ CodecEncode
    \/ CodecDecode
    \/ CodecSuggest

SpecCodec == InitCodec /\ [][NextCodec]_vars

InitSwitch ==
    /\ \E p \in Pins : CherrySwitchInit(p)
    /\ LampIdle /\ CodecIdle /\ ClientIdle

NextSwitch ==
    \/ change_state
    \/ state_changed
    \/ change_permitted

SpecSwitch == InitSwitch /\ [][NextSwitch]_vars

InitClient ==
    /\ ClientInit
    /\ LampIdle /\ CodecIdle /\ SwitchIdle

NextClient ==
    \/ MainInitialCheck
    \/ MainPush
    \/ MainNoPush
    \/ MainCheck
    \/ MainThreadStart
    \/ MainSleep
    \/ OtherPartyWrite

SpecClient == InitClient /\ [][NextClient]_vars

(***************************************************************************)
(* SpecQuiet: main() when every remote call succeeds and nobody else       *)
(* writes the feed: the feed starts with an integer, every GET and POST    *)
(* has outcome "ok" and OtherPartyWrite is left out.                       *)
(***************************************************************************)
\* client.py:51-52
QuietInitialCheck ==
    /\ pc = "start"
    /\ check_color("loop", "ok")
    /\ Event(Ev("pull", 52))
    /\ UNCHANGED <<thread, codecVars, switchVars>>

\* client.py:55-57
QuietPush ==
    /\ pc = "loop"
    /\ trigger_color_change("check", "ok")
    /\ Event(Ev("push", 57))
    /\ UNCHANGED <<thread, codecVars, switchVars>>

\* client.py:58
QuietCheck ==
    /\ pc = "check"
    /\ check_color("thread", "ok")
    /\ Event(Ev("pull", 58))
    /\ UNCHANGED <<thread, codecVars, switchVars>>

InitQuiet ==
    /\ InitClient
    /\ remote.kind = "int"

NextQuiet ==
    \/ QuietInitialCheck
    \/ QuietPush
    \/ MainNoPush
    \/ QuietCheck
    \/ MainThreadStart
    \/ MainSleep

SpecQuiet == InitQuiet /\ [][NextQuiet]_vars

(***************************************************************************)
(* Properties                                                              *)
(***************************************************************************)
White == <<255, 255, 255>>
Blue  == <<0, 0, 255>>
InRange(c) == \A i \in 1..3 : c[i] \in ChannelMin..ChannelMax

\* C1 (SpecLamp): in every state of a constructed Console each stored channel
\* is in [0,255] and the stored brightness is in [0.0,1.0].
C1_RangesAlwaysHold ==
    /\ InRange(rgb)
    /\ FloatLE(Float(0), brightness)
    /\ FloatLE(brightness, Float(FloatUnit))

\* C2 (SpecCodec): for every colour c with channels in [0,255],
\* rgb_decode(rgb_encode(c)) = c.
C2_RoundTrip ==
    (fn.kind = "color" /\ fn.trail = <<"rgb_encode", "rgb_decode">> /\ InRange(fn.inColor))
        => fn.color = fn.inColor

C2_Witness ==
    /\ fn.kind = "color"
    /\ fn.trail = <<"rgb_encode", "rgb_decode">>
    /\ fn.inColor = <<255, 222, 30>>
    /\ fn.value = 16768542
    /\ fn.color = <<255, 222, 30>>

\* C3 (SpecClient): after check_color completes without error the lamp's
\* colour is rgb_decode of the value read from the feed, whatever it was
\* before; brightness, power state and the feed's value are unchanged.
C3_PullRemoteWins ==
    (step.op = "check_color" /\ ~step.raised)
        => /\ step.preRemote.kind = "int"
           /\ step.read = step.preRemote.value
           /\ rgb = rgb_decode(step.read)
           /\ brightness = step.pre.brightness
           /\ state = step.pre.state
           /\ remote = step.preRemote

C3_Witness ==
    /\ step.op = "check_color"
    /\ ~step.raised
    /\ step.pre.rgb = <<0, 0, 0>>
    /\ step.read = rgb_encode(Blue)
    /\ rgb = Blue

\* C4 (SpecClient): after trigger_color_change completes with a successful
\* write the lamp's colour is a palette entry different from the colour
\* before the call and the feed holds rgb_encode of exactly that colour.
C4_PushWritesNewColor ==
    (step.op = "trigger_color_change" /\ ~step.raised /\ step.outcome = "ok")
        => /\ rgb \in Palette
           /\ rgb # step.pre.rgb
           /\ rgb = step.new_color
           /\ remote = RemoteInt(rgb_encode(rgb))

C4_Witness ==
    /\ step.op = "trigger_color_change"
    /\ ~step.raised
    /\ step.outcome = "ok"
    /\ step.pre.rgb = White
    /\ rgb = Blue
    /\ remote = RemoteInt(255)

\* C5 (SpecLamp): after flash(n) returns the lamp is on, for every n >= 0
\* and both starting power states.
C5_FlashEndsOn ==
    call.op = "flash" => state = TRUE

\* C6 (SpecSwitch): on a fresh CherrySwitch, before any change_state() call,
\* state_changed() returns true.
C6_FirstQueryReportsChange ==
    \A i \in 1..Len(sw_log) :
        (sw_log[i].op = "state_changed" /\ \A j \in 1..(i - 1) : sw_log[j].op # "change_state")
            => sw_log[i].ret = TRUE

\* C7 (SpecLamp): set_color(c) fails exactly when some channel of c is
\* outside [0,255], and a failed call leaves colour, brightness and power
\* state as they were.
C7_SetColorValidation ==
    call.op = "set_color"
        => /\ call.raised <=> (\E i \in 1..3 : call.rgb[i] < 0 \/ call.rgb[i] > 255)
           /\ call.raised => Snapshot = call.pre
           /\ ~call.raised => (rgb = call.rgb /\ brightness = call.pre.brightness
                                 /\ state = call.pre.state)

C7_Witness ==
    /\ call.op = "set_color"
    /\ call.raised
    /\ call.rgb = <<255, 256, 0>>
    /\ call.pre.rgb = <<0, 255, 128>>
    /\ rgb = <<0, 255, 128>>

\* C8 (SpecCodec): every value suggest_rgb(current) returns is one of the 13
\* palette entries and differs from current; when current is not a palette
\* entry each of the 13 entries is a possible result.
C8_SuggestFromPalette ==
    fn.trail = <<"suggest_rgb">>
        => /\ fn.color \in Palette
           /\ fn.color # fn.inColor
           /\ \E i \in 1..Len(fn.choices) : fn.choices[i] = fn.color
           /\ fn.inColor \notin Palette
                => /\ {fn.choices[i] : i \in 1..Len(fn.choices)} = Palette
                   /\ Cardinality(Palette) = 13

C8_Witness ==
    /\ fn.trail = <<"suggest_rgb">>
    /\ fn.inColor = White
    /\ fn.color = <<180, 0, 255>>
    /\ Len(fn.choices) = 12

\* C9 as stated (SpecClient): the loop's events go (pull, optional push,
\* sleep) repeated: inside the loop a push comes right after a pull, a sleep
\* after a push or a pull, and a pull right after a sleep.  The pull made
\* before the loop (client.py:52) is left out of the statement.
C9_PullPushSleep ==
    /\ (lastEvent = Ev("push", 57) /\ prevEvent.line \in {57, 58, 61})
          => prevEvent.what = "pull"
    /\ lastEvent = Ev("sleep", 61) => prevEvent.what \in {"pull", "push"}
    /\ (lastEvent = Ev("pull", 58) /\ prevEvent.line \in {57, 58, 61})
          => prevEvent.what = "sleep"

\* C9 amended (SpecClient): the events go pull (client.py:52), then
\* (optional push, pull, sleep) repeated: a push comes right after a sleep or
\* the first pull, the loop's pull after that push or, without one, after the
\* sleep or the first pull, and a sleep right after the loop's pull.
C9_PushPullSleep ==
    /\ lastEvent = Ev("pull", 52) => prevEvent = NoEvent
    /\ lastEvent = Ev("push", 57) => prevEvent \in {Ev("pull", 52), Ev("sleep", 61)}
    /\ lastEvent = Ev("pull", 58) => prevEvent \in {Ev("push", 57), Ev("sleep", 61), Ev("pull", 52)}
    /\ lastEvent = Ev("sleep", 61) => prevEvent = Ev("pull", 58)
    /\ lastEvent \in {NoEvent, Ev("pull", 52), Ev("push", 57), Ev("pull", 58), Ev("sleep", 61)}
    /\ pc = "sleep" => lastEvent = Ev("pull", 58)

C9_Witness ==
    /\ lastEvent = Ev("pull", 58)
    /\ prevEvent = Ev("push", 57)
    /\ pc = "thread"

\* C10 (SpecClient): a failed remote call or a malformed payload does not
\* stop the main loop.
C10_NoErrorIsFatal ==
    step.raised => pc # "crashed"

\* C11 (SpecClient): in every iteration a check_color runs in the spawned
\* thread, concurrently with the main loop: the thread started at
\* client.py:59 has check_color as its target, and main has not run the
\* check itself when it starts the thread.
C11_CheckRunsInThread ==
    thread.started => thread.target = "check_color"

\* C12 (SpecCodec): for every colour (r,g,b) with channels in [0,255],
\* rgb_encode returns r*2^16 + g*2^8 + b, a value in 0..2^24-1.
C12_EncodePacks ==
    (fn.kind = "color" /\ fn.trail = <<"rgb_encode">> /\ InRange(fn.inColor))
        => /\ fn.value = (fn.inColor[1] * 65536) + (fn.inColor[2] * 256) + fn.inColor[3]
           /\ fn.value \in 0..16777215

C12_Witness ==
    /\ fn.kind = "color"
    /\ fn.trail = <<"rgb_encode">>
    /\ fn.inColor = <<255, 254, 1>>
    /\ fn.value = 16776705

\* C13 (SpecCodec): for every non-negative integer v, also with bits above
\* bit 23, rgb_decode(v) has its three channels in [0,255] and passes the
\* validation of set_color, and rgb_encode(rgb_decode(v)) = v mod 2^24.
C13_DecodeMasks ==
    (fn.kind = "value" /\ fn.inValue >= 0 /\ fn.trail # <<>> /\ fn.trail[1] = "rgb_decode")
        => /\ InRange(fn.color)
           /\ validate_color(fn.color)
           /\ fn.trail = <<"rgb_decode", "rgb_encode">> => fn.value = fn.inValue % 16777216

C13_Witness ==
    /\ fn.kind = "value"
    /\ fn.trail = <<"rgb_decode", "rgb_encode">>
    /\ fn.inValue = 50397699
    /\ fn.color = <<1, 2, 3>>
    /\ fn.value = 66051

\* C14 (SpecLamp): set_brightness(b) succeeds exactly when 0.0 <= b <= 1.0;
\* on success the stored brightness is b, on failure it keeps its value.
C14_SetBrightnessValidation ==
    call.op = "set_brightness"
        => /\ ~call.raised <=> (FloatLE(Float(0), call.brightness)
                                  /\ FloatLE(call.brightness, Float(FloatUnit)))
           /\ ~call.raised => brightness = call.brightness
           /\ call.raised => brightness = call.pre.brightness

\* C15 (SpecLamp): flash(n) makes exactly 2n power-state writes, alternating
\* off, on, off, on, ...; for n = 0 it makes none and the power state is
\* unchanged; colour and brightness are unchanged for every n.
C15_FlashToggles ==
    call.op = "flash"
        => /\ Len(call.writes) = 2 * call.n
           /\ \A i \in 1..Len(call.writes) : call.writes[i] = (i % 2 = 0)
           /\ call.n = 0 => state = call.pre.state
           /\ call.n > 0 => state = TRUE
           /\ rgb = call.pre.rgb
           /\ brightness = call.pre.brightness

C15_Witness ==
    /\ call.op = "flash"
    /\ call.n = 2
    /\ call.pre.state = FALSE
    /\ call.writes = <<FALSE, TRUE, FALSE, TRUE>>
    /\ state = TRUE

PulsationsInOrder ==
    /\ Len(call.events) = 2 * call.n
    /\ \A k \in 0..(call.n - 1) :
          /\ call.events[(2 * k) + 1] = [what |-> "start", i |-> k]
          /\ call.events[(2 * k) + 2] = [what |-> "finish", i |-> k]
    /\ call.waited = call.n * call.seconds

\* C18 as stated (SpecLamp): pulsate(n, seconds) returns for every n >= 0,
\* having emitted exactly n start/finish pairs in order around one wait of
\* `seconds` each, and leaves colour, brightness and power state unchanged.
C18_PulsateEmitsPairs ==
    call.op = "pulsate"
        => /\ ~call.raised
           /\ PulsationsInOrder
           /\ Snapshot = call.pre

\* C18 amended (SpecLamp): for seconds >= 0, pulsate(n, seconds) returns for
\* every n >= 0 having emitted exactly n start/finish pairs in order, with a
\* total wait of n * seconds; for every n and seconds it leaves colour,
\* brightness and power state unchanged.
C18_PulsateEmitsPairsNonNegative ==
    call.op = "pulsate"
        => /\ call.seconds >= 0 => (~call.raised /\ PulsationsInOrder)
           /\ Snapshot = call.pre

C18_Witness ==
    /\ call.op = "pulsate"
    /\ call.n = 2
    /\ call.seconds = 5
    /\ ~call.raised
    /\ Len(call.events) = 4
    /\ call.waited = 10

\* the step is a call of the named switch method
SwitchCall(op) ==
    /\ Len(sw_log') = Len(sw_log) + 1
    /\ sw_log'[Len(sw_log')].op = op

LastSwitchCall == sw_log[Len(sw_log)]

\* C16 (SpecSwitch): every change_state() call takes effect and swaps the two
\* remembered values: the new previous-state is the old current-state and
\* the new current-state is the old previous-state.
C16_ChangeStateSwaps ==
    [][SwitchCall("change_state")
         => /\ change_permitted_result
            /\ sw_previous_state' = sw_state
            /\ sw_state' = sw_previous_state]_vars

C16_Witness ==
    /\ Len(sw_log) = 3
    /\ \A i \in 1..3 : sw_log[i].op = "change_state"
    /\ sw_state = TRUE
    /\ sw_previous_state = FALSE

C20_ConvergedAtSleep ==
    /\ pc # "crashed"
    /\ (pc = "sleep" \/ (pc = "loop" /\ lastEvent = Ev("pull", 52)))
          => /\ remote.kind = "int"
             /\ rgb = rgb_decode(remote.value)
    /\ (step.op = "check_color" /\ lastEvent = Ev("pull", 58) /\ prevEvent = Ev("push", 57))
          => /\ rgb = step.pre.rgb
             /\ rgb = rgb_decode(remote.value)

C20_Witness ==
    /\ pc = "sleep"
    /\ lastEvent = Ev("pull", 58)
    /\ prevEvent = Ev("push", 57)
    /\ step.pre.rgb = <<253, 245, 230>>
    /\ rgb = <<253, 245, 230>>
    /\ remote = RemoteInt(16643558)

====
